---- MODULE Spec2Model ----
(***************************************************************************)
(* SuanMing: the knowledge base (src/api/knowledge_base.py) and the bazi   *)
(* calculator (src/api/main.py).                                           *)
(*                                                                         *)
(* Text is modelled after segmentation: a document's content and a query   *)
(* are the token sequences jieba.lcut returns for them (jieba is an        *)
(* external library).  Python's document identifiers are 0-based, TLA+     *)
(* sequences 1-based: documents[doc_id + 1] is Python's documents[doc_id]. *)
(***************************************************************************)
EXTENDS Integers, Sequences, FiniteSets, TLC

\* ------------------------------------------------------------------ bounds

\* Most documents a knowledge base holds.
MaxDocs == 3
\* Most documents a knowledge base shared by two callers holds.
MaxSharedDocs == 2
\* Most documents one add_documents call brings.
MaxBatch == 2
\* The limits a search is called with run from -MaxNegLimit to MaxLimit.
MaxNegLimit == 2
MaxLimit == 2
\* Most documents the knowledge base of get_relevant_knowledge holds.
MaxKnowledgeDocs == 6
\* A longitude is given to 1/SubMicro of the longitude that shifts the
\* clock by one microsecond.
SubMicro == 10

\* search's default n_results.
DEFAULT_N_RESULTS == 5

Doc(content, source, category) ==
    [content |-> content, source |-> source, category |-> category]

\* The documents add_documents is called with.
DocPool ==
    { Doc(<<"wuxing">>, "s1", "basic"),
      Doc(<<"mingli">>, "s2", "basic"),
      Doc(<<"wuxing", "wuxing">>, "s3", "basic"),
      Doc(<<"mingli", "wuxing">>, "s4", "method"),
      Doc(<<"bazi">>, "s5", "method") }

SharedDocPool ==
    { Doc(<<"wuxing">>, "s1", "basic"),
      Doc(<<"mingli", "wuxing", "wuxing">>, "s4", "method") }

\* The segmented queries search is called with.
QueryPool ==
    { <<>>, <<"wuxing">>, <<"mingli", "wuxing">>, <<"unknown">>,
      <<"wuxing", "unknown", "wuxing">>, <<"mingli", "unknown", "wuxing">> }

SharedQueryPool ==
    { <<>>, <<"unknown">>, <<"mingli", "wuxing">> }

Limits == (0 - MaxNegLimit)..MaxLimit

SharedLimits == {-1, 1, DEFAULT_N_RESULTS}

Callers == {1, 2}

Bazi(year, month, day, hour) ==
    [year |-> year, month |-> month, day |-> day, hour |-> hour]

\* The pillar sets get_relevant_knowledge is called with.
BaziPool ==
    { Bazi("jiazi", "bingzi", "jiazi", "jiazi"),
      Bazi("wuwu", "wuwu", "wuwu", "wuwu") }

KnowledgeDocPool ==
    { Doc(<<"wuxing">>, "s1", "basic"),
      Doc(<<"jiazi", "mingli">>, "s2", "method") }

VARIABLES
    documents,      \* self.documents
    index,          \* self.index: token -> posting list of document ids
    serving,        \* the knowledge base is built and requests are served
    pc,             \* per caller: where its search stands
    query_words,    \* per caller: set(jieba.lcut(query)) in iteration order
    n_results,      \* per caller: the limit
    todo,           \* per caller: the query words still to visit
    doc_scores,     \* per caller: the dict, as its items in insertion order
    sorted_docs,    \* per caller: the ranked and truncated items
    results,        \* per caller: what search returns
    bazi_data,      \* per caller: <<the argument>> of get_relevant_knowledge,
                    \* <<>> when search is called by itself
    knowledge       \* per caller: what get_relevant_knowledge returns

VARIABLES
    bpc,                \* where calculate_bazi stands
    birth_info,         \* <<the request>>, <<>> between requests
    now_year,           \* datetime.now().year of the request
    solar_date,         \* <<year, month, day>> after the lunar conversion
    local_datetime,     \* <<the corrected timestamp>>
    hour_branch_index,  \* <<what get_gz_hour returned>>
    gz_return,          \* the return statement get_gz_hour left by
    bazi,               \* <<the dict calculate_bazi returns>>
    http_error,         \* <<the HTTPException calculate_bazi raises>>
    cycle_day,          \* consecutive days asked for so far
    zi_log              \* the <<day stem, hour stem>> indices logged at zi hour

VARIABLES
    lpc,                \* where a call of beijing_time_to_local_time stands
    lt_dt,              \* <<the argument dt>>
    lt_longitude,       \* <<the argument longitude>>
    lt_local            \* <<the timestamps returned for dt: at the longitude,
                        \* at the reference meridian, at the mirrored
                        \* longitude, at twice the offset>>

kbVars == <<documents, index, serving>>
baziVars == <<bpc, birth_info, now_year, solar_date, local_datetime,
              hour_branch_index, gz_return, bazi, http_error>>
cycleVars == <<cycle_day, zi_log>>
searchVars == <<pc, query_words, n_results, todo, doc_scores, sorted_docs,
                results, bazi_data, knowledge>>
localVars == <<lpc, lt_dt, lt_longitude, lt_local>>
vars == <<kbVars, searchVars, baziVars, cycleVars, localVars>>

\* ------------------------------------------------------------- sequences

SetOf(seq) == {seq[i] : i \in DOMAIN seq}

\* Every order in which the elements of S can be visited.
Perms(S) ==
    {s \in [1..Cardinality(S) -> S] : \A i, j \in DOMAIN s : i # j => s[i] # s[j]}

SeqsUpTo(S, n) == UNION {[1..k -> S] : k \in 0..n}

Max(a, b) == IF a >= b THEN a ELSE b
Min(a, b) == IF a <= b THEN a ELSE b

\* ---------------------------------------------------------- add_documents

EmptyIndex == [w \in {} |-> <<>>]

RECURSIVE Dedupe(_)
\* set(words): each word once.  The order the set is visited in does not
\* matter to add_documents, every word has a posting list of its own.
Dedupe(words) ==
    IF words = <<>> THEN <<>>
    ELSE LET rest == Dedupe(Tail(words))
         IN IF Head(words) \in SetOf(rest) THEN rest ELSE <<Head(words)>> \o rest

\* Mutant: for word in words, without the set.
WordsNoDedupe(content) == content

\* The words of a document that add_documents indexes.
WordsToIndex(content) == Dedupe(content)

\* self.index[word].append(doc_id), on a defaultdict(list).
AppendPosting(idx, word, doc_id) ==
    IF word \in DOMAIN idx
    THEN [idx EXCEPT ![word] = Append(@, doc_id)]
    ELSE idx @@ (word :> <<doc_id>>)

RECURSIVE IndexWords(_, _, _)
IndexWords(idx, words, doc_id) ==
    IF words = <<>> THEN idx
    ELSE IndexWords(AppendPosting(idx, Head(words), doc_id), Tail(words), doc_id)

RECURSIVE AddAll(_, _, _)
\* The loop of add_documents over its argument.
AddAll(docs, idx, batch) ==
    IF batch = <<>> THEN [documents |-> docs, index |-> idx]
    ELSE LET doc == Head(batch)
             doc_id == Len(docs)
         IN AddAll(Append(docs, doc),
                   IndexWords(idx, WordsToIndex(doc.content), doc_id),
                   Tail(batch))

\* ------------------------------------------------------------------ search

\* Mutant: self.index[word], which adds the key of an unknown word.
IndexGetItem(idx, word) ==
    IF word \in DOMAIN idx
    THEN [postings |-> idx[word], index |-> idx]
    ELSE [postings |-> <<>>, index |-> idx @@ (word :> <<>>)]

\* self.index.get(word, []): the posting list, and the index after the call.
IndexGet(idx, word) ==
    [postings |-> IF word \in DOMAIN idx THEN idx[word] ELSE <<>>,
     index |-> idx]

\* doc_scores[doc_id] += 1 on a defaultdict(int): a new key goes last.
AddScore(scores, doc_id) ==
    IF \E i \in DOMAIN scores : scores[i][1] = doc_id
    THEN [i \in DOMAIN scores |->
            IF scores[i][1] = doc_id THEN <<doc_id, scores[i][2] + 1>> ELSE scores[i]]
    ELSE Append(scores, <<doc_id, 1>>)

RECURSIVE ScanPostings(_, _)
ScanPostings(scores, postings) ==
    IF postings = <<>> THEN scores
    ELSE ScanPostings(AddScore(scores, Head(postings)), Tail(postings))

\* Where a stable descending sort puts item x among the sorted items: after
\* every item whose score is at least x's.
InsertStable(sorted, x) ==
    LET k == Cardinality({i \in DOMAIN sorted : sorted[i][2] >= x[2]})
    IN SubSeq(sorted, 1, k) \o <<x>> \o SubSeq(sorted, k + 1, Len(sorted))

RECURSIVE SortByScore(_)
\* sorted(items, key=score, reverse=True): stable, equal scores keep the
\* order of the dict.
SortByScore(items) ==
    IF items = <<>> THEN <<>>
    ELSE InsertStable(SortByScore(SubSeq(items, 1, Len(items) - 1)), items[Len(items)])

\* Mutant: no truncation.
SliceAll(s, n) == s

\* s[:n]: a negative n counts from the end.
Slice(s, n) ==
    IF n >= 0 THEN SubSeq(s, 1, Min(n, Len(s)))
    ELSE SubSeq(s, 1, Max(0, Len(s) + n))

\* Mutant: an empty ranking falls back to the stored documents.
BuildResultsFallback(docs, ranked) ==
    IF ranked = <<>>
    THEN [documents |-> docs,
          results |-> [i \in DOMAIN docs |-> docs[i] @@ ("score" :> 0)]]
    ELSE [documents |-> docs,
          results |-> [i \in DOMAIN ranked |->
                         ("score" :> ranked[i][2]) @@ docs[ranked[i][1] + 1]]]

\* Mutant: doc = self.documents[doc_id], without the copy.
BuildResultsNoCopy(docs, ranked) ==
    LET scored(i) == {k \in DOMAIN ranked : ranked[k][1] + 1 = i}
        stored == [i \in DOMAIN docs |->
                     IF scored(i) = {} THEN docs[i]
                     ELSE ("score" :> ranked[CHOOSE k \in scored(i) : TRUE][2]) @@ docs[i]]
    IN [documents |-> stored,
        results |-> [i \in DOMAIN ranked |-> stored[ranked[i][1] + 1]]]

\* The result loop: each ranked document copied, the copy given its score.
\* Yields the stored documents after the loop too.
BuildResults(docs, ranked) ==
    [documents |-> docs,
     results |-> [i \in DOMAIN ranked |->
                    ("score" :> ranked[i][2]) @@ docs[ranked[i][1] + 1]]]

RECURSIVE ScanAll(_, _, _)
ScanAll(idx, scores, words) ==
    IF words = <<>> THEN scores
    ELSE ScanAll(idx, ScanPostings(scores, IndexGet(idx, Head(words)).postings),
                 Tail(words))

\* search run from start to end with nothing in between.
SearchAlone(docs, idx, words, n) ==
    BuildResults(docs, Slice(SortByScore(ScanAll(idx, <<>>, words)), n)).results

\* -------------------------------------------------- get_relevant_knowledge

\* The segmented query text: the four pillars, each before its marker, and
\* the fixed terms.  Of the markers and fixed terms (nianzhu, yuezhu,
\* rizhu, shizhu, mingli, fenxi, wuxing, yunshi) the model keeps two;
\* a word no document holds adds nothing to any score.
QueryOf(pillars) ==
    <<pillars.year, pillars.month, pillars.day, pillars.hour, "mingli", "wuxing">>

Digits == <<"0", "1", "2", "3", "4", "5", "6", "7", "8", "9">>

RECURSIVE IntToStr(_)
\* str(n) of a score, as its digits.
IntToStr(n) ==
    IF n < 10 THEN <<Digits[n + 1]>>
    ELSE IntToStr(n \div 10) \o <<Digits[(n % 10) + 1]>>

\* The f-string of one result; a text is the sequence of its pieces.
FormatBlock(doc) ==
    <<"source:", doc.source, "NL", "category:", doc.category, "NL", "score:">>
        \o IntToStr(doc.score) \o <<"NL", "content:">> \o doc.content

RECURSIVE JoinSingleNewline(_, _)
\* Mutant: the blocks joined by one line break.
JoinSingleNewline(blocks, sep) ==
    IF blocks = <<>> THEN <<>>
    ELSE IF Len(blocks) = 1 THEN blocks[1]
    ELSE blocks[1] \o <<"NL">> \o JoinSingleNewline(Tail(blocks), sep)

RECURSIVE Join(_, _)
\* sep.join(blocks)
Join(blocks, sep) ==
    IF blocks = <<>> THEN <<>>
    ELSE IF Len(blocks) = 1 THEN blocks[1]
    ELSE blocks[1] \o <<sep>> \o Join(Tail(blocks), sep)

FormatKnowledge(res) ==
    Join([i \in DOMAIN res |-> FormatBlock(res[i])], "NLNL")

\* ---------------------------------------------------------------- calendar

\* Longitudes and latitudes are in units of 1/10000 degree, times of day in
\* milliseconds; a day is its Julian day number at noon.

IsLeap(y) == (y % 4 = 0 /\ y % 100 # 0) \/ y % 400 = 0

DaysInMonth(y, m) ==
    IF m \in {4, 6, 9, 11} THEN 30
    ELSE IF m = 2 THEN (IF IsLeap(y) THEN 29 ELSE 28)
    ELSE 31

\* datetime(year, month, day, ...) raises ValueError for a day the month
\* does not have.
ValidDate(y, m, d) == m \in 1..12 /\ d \in 1..DaysInMonth(y, m)

\* The Julian day number of a Gregorian date.
JulianDay(y, m, d) ==
    LET a == (14 - m) \div 12
        yy == y + 4800 - a
        mm == m + 12 * a - 3
    IN d + (153 * mm + 2) \div 5 + 365 * yy + yy \div 4 - yy \div 100
         + yy \div 400 - 32045

\* The Gregorian date of a Julian day number.
FromJulianDay(jd) ==
    LET l1 == jd + 68569
        n == (4 * l1) \div 146097
        l2 == l1 - (146097 * n + 3) \div 4
        i == (4000 * (l2 + 1)) \div 1461001
        l3 == l2 - (1461 * i) \div 4 + 31
        j == (80 * l3) \div 2447
        d == l3 - (2447 * j) \div 80
        l4 == j \div 11
    IN <<100 * (n - 49) + i + l4, j + 2 - 12 * l4, d>>

HEAVENLY_STEMS ==
    <<"jia", "yi", "bing", "ding", "wu", "ji", "geng", "xin", "ren", "gui">>

EARTHLY_BRANCHES ==
    <<"zi", "chou", "yin", "mao", "chen", "si", "wu", "wei", "shen", "you",
      "xu", "hai">>

\* list.index(x), 0-based.
IndexOf(seq, x) == (CHOOSE i \in DOMAIN seq : seq[i] = x) - 1

\* The first lunar month of the years lunar dates are drawn from: the
\* solar date of its first day, and its length.
LUNAR_FIRST_MONTH ==
    (2000 :> [start |-> <<2000, 2, 5>>, days |-> 30]) @@
    (2026 :> [start |-> <<2026, 2, 17>>, days |-> 30])

\* convert_lunar_to_solar, on a day of the first lunar month: Lunar.fromYmd
\* raises for a day the month does not have, and the ValueError wraps it.
convert_lunar_to_solar(year, month, day) ==
    LET first == LUNAR_FIRST_MONTH[year]
    IN IF day > first.days
       THEN [ok |-> FALSE, date |-> <<>>, error |-> "lunar conversion failed"]
       ELSE [ok |-> TRUE,
             date |-> FromJulianDay(
                 JulianDay(first.start[1], first.start[2], first.start[3]) + day - 1),
             error |-> ""]

\* Lunar.getDayInGanZhi of Solar.fromYmd(y, m, d).getLunar(): the day's
\* place in the sixty-day count, as <<stem, branch>>.
DayInGanZhi(y, m, d) ==
    LET offset == JulianDay(y, m, d) - 11
    IN <<HEAVENLY_STEMS[(offset % 10) + 1], EARTHLY_BRANCHES[(offset % 12) + 1]>>

\* Lunar.getYearInGanZhi, getMonthInGanZhi and the lunar date's Chinese
\* text come from the calendar library: what matters of them here is that
\* each is a function of the solar date, kept as the term itself.
YearInGanZhi(y, m, d) == <<"YearInGanZhi", y, m, d>>
MonthInGanZhi(y, m, d) == <<"MonthInGanZhi", y, m, d>>
LunarDateText(y, m, d) == <<"LunarInChinese", y, m, d>>

\* ------------------------------------------------ beijing_time_to_local_time

BEIJING_LONGITUDE == 1164074
MINUTES_PER_DEGREE == 4
MS_PER_MINUTE == 60000
MS_PER_HOUR == 3600000
MS_PER_DAY == 86400000

US_PER_MS == 1000

\* A longitude: units of 1/10000 degree and, below a unit, sub of the
\* longitude that shifts the clock by 1/SubMicro of a microsecond.
Degrees(units, sub) == [units |-> units, sub |-> sub]

\* The shift of one unit of longitude, in microseconds: 4 minutes a degree.
US_PER_UNIT == ((MINUTES_PER_DEGREE * MS_PER_MINUTE) \div 10000) * US_PER_MS

\* round(n / d) of Python: the nearest integer, a tie to the even one.
RoundHalfEven(n, d) ==
    LET q == n \div d
        r == n % d
    IN IF 2 * r < d THEN q
       ELSE IF 2 * r > d THEN q + 1
       ELSE IF q % 2 = 0 THEN q ELSE q + 1

\* The time difference kept as whole microseconds, cut off below.
LocalTimeTruncated(dt, longitude) ==
    LET longitude_diff == longitude.units - BEIJING_LONGITUDE
        time_diff_us == longitude.sub \div SubMicro
        total_us == dt.us + time_diff_us
        total_ms == dt.ms + longitude_diff * (US_PER_UNIT \div US_PER_MS)
                    + (total_us \div US_PER_MS)
    IN [day |-> dt.day + (total_ms \div MS_PER_DAY), ms |-> total_ms % MS_PER_DAY,
        us |-> total_us % US_PER_MS]

\* dt + timedelta(minutes=(longitude - BEIJING_LONGITUDE) * 4): a unit of
\* longitude shifts the clock by 24 ms, and timedelta keeps the rest as
\* whole microseconds, rounded half to even (the units' part is an even
\* number of microseconds, so the tie falls as it does for the sum).
beijing_time_to_local_time(dt, longitude) ==
    LET longitude_diff == longitude.units - BEIJING_LONGITUDE
        time_diff_us == RoundHalfEven(longitude.sub, SubMicro)
        total_us == dt.us + time_diff_us
        total_ms == dt.ms + longitude_diff * (US_PER_UNIT \div US_PER_MS)
                    + (total_us \div US_PER_MS)
    IN [day |-> dt.day + (total_ms \div MS_PER_DAY), ms |-> total_ms % MS_PER_DAY,
        us |-> total_us % US_PER_MS]

HourOf(dt) == dt.ms \div MS_PER_HOUR
MinuteOf(dt) == (dt.ms % MS_PER_HOUR) \div MS_PER_MINUTE

\* -------------------------------------------------------------- get_gz_hour

\* hour_ranges, in the order of the dict: branch i at place i + 1.
hour_ranges ==
    << <<23, 1>>, <<1, 3>>, <<3, 5>>, <<5, 7>>, <<7, 9>>, <<9, 11>>,
       <<11, 13>>, <<13, 15>>, <<15, 17>>, <<17, 19>>, <<19, 21>>, <<21, 23>> >>

RECURSIVE ScanRanges(_, _)
\* The loop over hour_ranges from place k on; decimal hours are compared
\* in minutes (decimal_hour * 60 = hour * 60 + minute).
ScanRanges(minutes, k) ==
    IF k > Len(hour_ranges) THEN [branch |-> 0, via |-> "default"]
    ELSE IF hour_ranges[k][1] * 60 <= minutes /\ minutes < hour_ranges[k][2] * 60
         THEN [branch |-> k - 1, via |-> "range"]
         ELSE ScanRanges(minutes, k + 1)

\* Mutant: the check for the hours around midnight left out.
GzHourNoWrap(hour, minute) == ScanRanges(hour * 60 + minute, 1)

\* get_gz_hour with the return statement it leaves by.
GzHour(hour, minute) ==
    LET minutes == hour * 60 + minute
    IN IF minutes >= 23 * 60 \/ minutes < 1 * 60
       THEN [branch |-> 0, via |-> "wrap"]
       ELSE ScanRanges(minutes, 1)

get_gz_hour(hour, minute) == GzHour(hour, minute).branch

\* ----------------------------------------------------------- calculate_bazi

MsgYear == "year must be between 1900 and now"
MsgMonth == "month must be between 1 and 12"
MsgDay == "day must be between 1 and 31"
MsgLatitude == "latitude must be between -90 and 90 degrees"
MsgLongitude == "longitude must be between -180 and 180 degrees"
MsgDatetime == "day is out of range for month"

\* Mutant: the month checked before the year.
ValidationErrorMonthFirst(info, now) ==
    IF ~(1 <= info.month /\ info.month <= 12) THEN MsgMonth
    ELSE IF ~(1900 <= info.year /\ info.year <= now) THEN MsgYear
    ELSE IF ~(1 <= info.day /\ info.day <= 31) THEN MsgDay
    ELSE IF ~(-900000 <= info.latitude /\ info.latitude <= 900000) THEN MsgLatitude
    ELSE IF ~(-1800000 <= info.longitude /\ info.longitude <= 1800000) THEN MsgLongitude
    ELSE ""

\* The five checks at the head of calculate_bazi: the message of the first
\* that fails, "" when none does.
ValidationError(info, now) ==
    IF ~(1900 <= info.year /\ info.year <= now) THEN MsgYear
    ELSE IF ~(1 <= info.month /\ info.month <= 12) THEN MsgMonth
    ELSE IF ~(1 <= info.day /\ info.day <= 31) THEN MsgDay
    ELSE IF ~(-900000 <= info.latitude /\ info.latitude <= 900000) THEN MsgLatitude
    ELSE IF ~(-1800000 <= info.longitude /\ info.longitude <= 1800000) THEN MsgLongitude
    ELSE ""

\* except Exception as e: raise HTTPException(400, "bazi error: " + str(e))
HttpError(message) == <<[status_code |-> 400, detail |-> <<"bazi calculation error", message>>]>>

\* Mutant: the stems counted from the day stem without doubling it.
HourStemNotDoubled(day_stem_index, branch_index) ==
    (day_stem_index + branch_index) % 10

\* Mutant: the hour branches counted from 1.
HourStemShifted(day_stem_index, branch_index) ==
    (day_stem_index * 2 + branch_index + 1) % 10

\* hour_stem_index
HourStemIndex(day_stem_index, branch_index) ==
    (day_stem_index * 2 + branch_index) % 10

\* Mutant: the pillars taken from the date of the corrected timestamp.
PillarDateLocal(date, local) == FromJulianDay(local.day)

\* The date Solar.fromYmd is called with: year, month, day, as they were
\* before the longitude correction.
PillarDate(date, local) == date

\* The pillars and texts calculate_bazi returns for a solar date, a local
\* time and its hour branch.
BaziOf(date, local, branch_index) ==
    LET solar == PillarDate(date, local)
        day_gz == DayInGanZhi(solar[1], solar[2], solar[3])
        day_stem_index == IndexOf(HEAVENLY_STEMS, day_gz[1])
        hour_stem_index == HourStemIndex(day_stem_index, branch_index)
    IN [year |-> YearInGanZhi(solar[1], solar[2], solar[3]),
        month |-> MonthInGanZhi(solar[1], solar[2], solar[3]),
        day |-> day_gz,
        hour |-> <<HEAVENLY_STEMS[hour_stem_index + 1],
                   EARTHLY_BRANCHES[branch_index + 1]>>,
        solar_date |-> date,
        lunar_date |-> LunarDateText(solar[1], solar[2], solar[3]),
        local_time |-> <<HourOf(local), MinuteOf(local)>>]

BirthInfo(year, month, day, hour, minute, latitude, longitude, is_lunar) ==
    [year |-> year, month |-> month, day |-> day, hour |-> hour,
     minute |-> minute, latitude |-> latitude, longitude |-> longitude,
     is_lunar |-> is_lunar]

\* datetime.now().year at the time of a request.
NowYears == {2025, 2026}

\* The requests: every time of day at and near the reference meridian,
EveryTime ==
    {BirthInfo(2000, 1, 1, h, mi, 399000, lon, FALSE) :
        h \in 0..23, mi \in 0..59, lon \in {BEIJING_LONGITUDE, 1164000}}
\* ten consecutive days at every hour,
EveryDayStem ==
    {BirthInfo(2000, 1, d, h, 30, 399000, BEIJING_LONGITUDE, FALSE) :
        d \in 1..10, h \in 0..23}
\* longitudes across the range, early and late in the day,
EveryLongitude ==
    {BirthInfo(2000, 3, 1, t[1], t[2], 0, lon, FALSE) :
        t \in {<<0, 10>>, <<12, 0>>, <<23, 50>>},
        lon \in {-1800000, -1200000, 0, 1139000, 1200000, 1800000}}
\* every field at, inside and outside the ends of its range,
EveryRange ==
    {BirthInfo(y, m, d, 12, 0, lat, lon, FALSE) :
        y \in {1899, 1900, 2025, 2026, 2027}, m \in {0, 1, 12, 13},
        d \in {0, 1, 31, 32}, lat \in {-900001, -900000, 900000, 900001},
        lon \in {-1800001, -1800000, 1800000, 1800001}}
\* days their month does not have, and lunar dates.
OddDates ==
    {BirthInfo(y, 2, d, 12, 0, 0, 0, FALSE) : y \in {1900, 2000}, d \in {28, 29, 30}}
    \cup {BirthInfo(y, 1, d, 23, 30, lat, 1164074, TRUE) :
            y \in {1899, 2000, 2026}, d \in {0, 1, 15, 31, 32}, lat \in {0, 900001}}

BirthInfos == EveryTime \cup EveryDayStem \cup EveryLongitude \cup EveryRange \cup OddDates

\* ------------------------------------------------------------------ actions

Idle == [c \in Callers |-> "idle"]
None == [c \in Callers |-> <<>>]

Init ==
    /\ documents = <<>>
    /\ index = EmptyIndex
    /\ serving = FALSE
    /\ pc = Idle
    /\ query_words = None
    /\ n_results = [c \in Callers |-> 0]
    /\ todo = None
    /\ doc_scores = None
    /\ sorted_docs = None
    /\ results = None
    /\ bazi_data = None
    /\ knowledge = None
    /\ bpc = "idle"
    /\ birth_info = <<>>
    /\ now_year = 0
    /\ solar_date = <<>>
    /\ local_datetime = <<>>
    /\ hour_branch_index = <<>>
    /\ gz_return = ""
    /\ bazi = <<>>
    /\ http_error = <<>>
    /\ cycle_day = 0
    /\ zi_log = {}
    /\ lpc = "idle"
    /\ lt_dt = <<>>
    /\ lt_longitude = <<>>
    /\ lt_local = <<>>

\* initialize_knowledge_base's add_documents, before requests are served.
AddDocuments(batch, max) ==
    /\ ~serving
    /\ batch # <<>>
    /\ Len(documents) + Len(batch) <= max
    /\ LET r == AddAll(documents, index, batch)
       IN /\ documents' = r.documents
          /\ index' = r.index
    /\ UNCHANGED <<serving, searchVars>>
    /\ UNCHANGED <<baziVars, cycleVars, localVars>>

\* The module is imported: kb is set and the endpoints answer.
StartServing ==
    /\ ~serving
    /\ serving' = TRUE
    /\ UNCHANGED <<documents, index, searchVars>>
    /\ UNCHANGED <<baziVars, cycleVars, localVars>>

\* search(query, n): the query is segmented, its words made a set, and
\* the set is visited in an order of its own.
SearchStart(c, query, order, n) ==
    /\ serving
    /\ pc[c] = "idle"
    /\ order \in Perms(SetOf(query))
    /\ pc' = [pc EXCEPT ![c] = "scan"]
    /\ query_words' = [query_words EXCEPT ![c] = order]
    /\ n_results' = [n_results EXCEPT ![c] = n]
    /\ todo' = [todo EXCEPT ![c] = order]
    /\ doc_scores' = [doc_scores EXCEPT ![c] = <<>>]
    /\ sorted_docs' = [sorted_docs EXCEPT ![c] = <<>>]
    /\ results' = [results EXCEPT ![c] = <<>>]
    /\ bazi_data' = [bazi_data EXCEPT ![c] = <<>>]
    /\ knowledge' = [knowledge EXCEPT ![c] = <<>>]
    /\ UNCHANGED kbVars
    /\ UNCHANGED <<baziVars, cycleVars, localVars>>

\* get_relevant_knowledge(bazi_data): the query is built and search called
\* with its default limit.
KnowledgeStart(c, pillars, order) ==
    /\ serving
    /\ pc[c] = "idle"
    /\ order \in Perms(SetOf(QueryOf(pillars)))
    /\ pc' = [pc EXCEPT ![c] = "scan"]
    /\ query_words' = [query_words EXCEPT ![c] = order]
    /\ n_results' = [n_results EXCEPT ![c] = DEFAULT_N_RESULTS]
    /\ todo' = [todo EXCEPT ![c] = order]
    /\ doc_scores' = [doc_scores EXCEPT ![c] = <<>>]
    /\ sorted_docs' = [sorted_docs EXCEPT ![c] = <<>>]
    /\ results' = [results EXCEPT ![c] = <<>>]
    /\ bazi_data' = [bazi_data EXCEPT ![c] = <<pillars>>]
    /\ knowledge' = [knowledge EXCEPT ![c] = <<>>]
    /\ UNCHANGED kbVars
    /\ UNCHANGED <<baziVars, cycleVars, localVars>>

\* One turn of the loop over the query words.
SearchScan(c) ==
    /\ pc[c] = "scan"
    /\ todo[c] # <<>>
    /\ LET got == IndexGet(index, Head(todo[c]))
       IN /\ index' = got.index
          /\ doc_scores' = [doc_scores EXCEPT ![c] = ScanPostings(@, got.postings)]
    /\ todo' = [todo EXCEPT ![c] = Tail(@)]
    /\ UNCHANGED <<documents, serving, pc, query_words, n_results, sorted_docs,
                   results, bazi_data, knowledge>>
    /\ UNCHANGED <<baziVars, cycleVars, localVars>>

\* The sort, the truncation and the result loop; documents[doc_id] raises
\* IndexError for an identifier that is not stored.
SearchFinish(c) ==
    /\ pc[c] = "scan"
    /\ todo[c] = <<>>
    /\ LET ranked == Slice(SortByScore(doc_scores[c]), n_results[c])
           built == BuildResults(documents, ranked)
       IN /\ sorted_docs' = [sorted_docs EXCEPT ![c] = ranked]
          /\ IF \A i \in DOMAIN ranked : ranked[i][1] + 1 \in DOMAIN documents
             THEN /\ documents' = built.documents
                  /\ results' = [results EXCEPT ![c] = built.results]
                  /\ pc' = [pc EXCEPT ![c] = "done"]
             ELSE /\ UNCHANGED <<documents, results>>
                  /\ pc' = [pc EXCEPT ![c] = "raised"]
    /\ UNCHANGED <<index, serving, query_words, n_results, todo, doc_scores,
                   bazi_data, knowledge>>
    /\ UNCHANGED <<baziVars, cycleVars, localVars>>

\* The results of search are formatted and joined.
KnowledgeFormat(c) ==
    /\ pc[c] = "done"
    /\ bazi_data[c] # <<>>
    /\ knowledge' = [knowledge EXCEPT ![c] = FormatKnowledge(results[c])]
    /\ pc' = [pc EXCEPT ![c] = "composed"]
    /\ UNCHANGED <<kbVars, query_words, n_results, todo, doc_scores, sorted_docs,
                   results, bazi_data>>
    /\ UNCHANGED <<baziVars, cycleVars, localVars>>

\* The caller takes what search, or get_relevant_knowledge, returned or
\* raised.
SearchReturn(c) ==
    /\ \/ pc[c] \in {"composed", "raised"}
       \/ pc[c] = "done" /\ bazi_data[c] = <<>>
    /\ pc' = [pc EXCEPT ![c] = "idle"]
    /\ query_words' = [query_words EXCEPT ![c] = <<>>]
    /\ n_results' = [n_results EXCEPT ![c] = 0]
    /\ todo' = [todo EXCEPT ![c] = <<>>]
    /\ doc_scores' = [doc_scores EXCEPT ![c] = <<>>]
    /\ sorted_docs' = [sorted_docs EXCEPT ![c] = <<>>]
    /\ results' = [results EXCEPT ![c] = <<>>]
    /\ bazi_data' = [bazi_data EXCEPT ![c] = <<>>]
    /\ knowledge' = [knowledge EXCEPT ![c] = <<>>]
    /\ UNCHANGED kbVars
    /\ UNCHANGED <<baziVars, cycleVars, localVars>>

\* One caller at a time.
Next ==
    \/ \E batch \in SeqsUpTo(DocPool, MaxBatch) : AddDocuments(batch, MaxDocs)
    \/ StartServing
    \/ \E q \in QueryPool, n \in Limits : \E o \in Perms(SetOf(q)) :
          SearchStart(1, q, o, n)
    \/ SearchScan(1)
    \/ SearchFinish(1)
    \/ SearchReturn(1)

Spec == Init /\ [][Next]_vars

\* Two callers on one knowledge base, their searches interleaved.
NextShared ==
    \/ \E batch \in SeqsUpTo(SharedDocPool, MaxBatch) : AddDocuments(batch, MaxSharedDocs)
    \/ StartServing
    \/ \E c \in Callers, q \in SharedQueryPool, n \in SharedLimits :
          \E o \in Perms(SetOf(q)) : SearchStart(c, q, o, n)
    \/ \E c \in Callers : SearchScan(c)
    \/ \E c \in Callers : SearchFinish(c)
    \/ \E c \in Callers : SearchReturn(c)

SpecShared == Init /\ [][NextShared]_vars

\* The analyze endpoint's use of the knowledge base.
NextKnowledge ==
    \/ \E batch \in SeqsUpTo(KnowledgeDocPool, MaxBatch) :
          AddDocuments(batch, MaxKnowledgeDocs)
    \/ StartServing
    \/ \E b \in BaziPool : \E o \in Perms(SetOf(QueryOf(b))) : KnowledgeStart(1, b, o)
    \/ SearchScan(1)
    \/ SearchFinish(1)
    \/ KnowledgeFormat(1)
    \/ SearchReturn(1)

SpecKnowledge == Init /\ [][NextKnowledge]_vars

\* --------------------------------------------------- calculate_bazi, in steps

BaziReset ==
    /\ birth_info' = <<>>
    /\ now_year' = 0
    /\ solar_date' = <<>>
    /\ local_datetime' = <<>>
    /\ hour_branch_index' = <<>>
    /\ gz_return' = ""
    /\ bazi' = <<>>
    /\ http_error' = <<>>

\* calculate_bazi(birth_info) is entered.
BaziRequest(info, now) ==
    /\ bpc = "idle"
    /\ bpc' = "validate"
    /\ birth_info' = <<info>>
    /\ now_year' = now
    /\ UNCHANGED <<solar_date, local_datetime, hour_branch_index, gz_return, bazi,
                   http_error>>
    /\ UNCHANGED <<kbVars, searchVars, cycleVars, localVars>>

\* The range checks; a ValueError leaves through the except clause.
BaziValidate ==
    /\ bpc = "validate"
    /\ LET e == ValidationError(birth_info[1], now_year)
       IN IF e # ""
          THEN /\ bpc' = "raised"
               /\ http_error' = HttpError(e)
          ELSE /\ bpc' = "convert"
               /\ UNCHANGED http_error
    /\ UNCHANGED <<birth_info, now_year, solar_date, local_datetime,
                   hour_branch_index, gz_return, bazi>>
    /\ UNCHANGED <<kbVars, searchVars, cycleVars, localVars>>

\* year, month, day: the lunar date converted, the solar date as it is.
BaziConvert ==
    /\ bpc = "convert"
    /\ LET info == birth_info[1]
           conv == IF info.is_lunar
                   THEN convert_lunar_to_solar(info.year, info.month, info.day)
                   ELSE [ok |-> TRUE, date |-> <<info.year, info.month, info.day>>,
                         error |-> ""]
       IN IF conv.ok
          THEN /\ solar_date' = conv.date
               /\ bpc' = "localize"
               /\ UNCHANGED http_error
          ELSE /\ bpc' = "raised"
               /\ http_error' = HttpError(conv.error)
               /\ UNCHANGED solar_date
    /\ UNCHANGED <<birth_info, now_year, local_datetime, hour_branch_index,
                   gz_return, bazi>>
    /\ UNCHANGED <<kbVars, searchVars, cycleVars, localVars>>

\* beijing_datetime, local_datetime and the hour branch of the local time.
BaziLocalTime ==
    /\ bpc = "localize"
    /\ LET info == birth_info[1]
       IN IF ~ValidDate(solar_date[1], solar_date[2], solar_date[3])
          THEN /\ bpc' = "raised"
               /\ http_error' = HttpError(MsgDatetime)
               /\ UNCHANGED <<local_datetime, hour_branch_index, gz_return>>
          ELSE LET beijing_datetime ==
                       [day |-> JulianDay(solar_date[1], solar_date[2], solar_date[3]),
                        ms |-> info.hour * MS_PER_HOUR + info.minute * MS_PER_MINUTE,
                        us |-> 0]
                   local == beijing_time_to_local_time(beijing_datetime,
                                                       Degrees(info.longitude, 0))
                   gz == GzHour(HourOf(local), MinuteOf(local))
               IN /\ local_datetime' = <<local>>
                  /\ hour_branch_index' = <<gz.branch>>
                  /\ gz_return' = gz.via
                  /\ bpc' = "pillars"
                  /\ UNCHANGED http_error
    /\ UNCHANGED <<birth_info, now_year, solar_date, bazi>>
    /\ UNCHANGED <<kbVars, searchVars, cycleVars, localVars>>

\* The year, month and day pillars of the solar date, the hour pillar, and
\* the dict that is returned.
BaziPillars ==
    /\ bpc = "pillars"
    /\ bazi' = <<BaziOf(solar_date, local_datetime[1], hour_branch_index[1])>>
    /\ bpc' = "done"
    /\ UNCHANGED <<birth_info, now_year, solar_date, local_datetime,
                   hour_branch_index, gz_return, http_error>>
    /\ UNCHANGED <<kbVars, searchVars, cycleVars, localVars>>

\* The caller has the dict, or the HTTPException.
BaziReturn ==
    /\ bpc \in {"done", "raised"}
    /\ bpc' = "idle"
    /\ BaziReset
    /\ UNCHANGED <<kbVars, searchVars, cycleVars, localVars>>

NextBazi ==
    \/ bpc = "idle" /\ \E info \in BirthInfos, now \in NowYears : BaziRequest(info, now)
    \/ BaziValidate
    \/ BaziConvert
    \/ BaziLocalTime
    \/ BaziPillars
    \/ BaziReturn

SpecBazi == Init /\ [][NextBazi]_vars

\* ------------------------------------------------ five consecutive days

\* The first of five consecutive days whose day stems are 0, 1, 2, 3, 4.
CycleStart == <<2000, 1, 7>>

\* The times of day asked for: in the zi hour at the reference meridian.
ZiTimes == {<<23, 0>>, <<23, 30>>, <<23, 59>>, <<0, 0>>, <<0, 30>>, <<0, 59>>}

\* The next of the five days is asked for, at a zi-hour time.
CycleRequest(t, now) ==
    /\ cycle_day < 5
    /\ bpc = "idle"
    /\ bpc' = "validate"
    /\ birth_info' = <<BirthInfo(CycleStart[1], CycleStart[2], CycleStart[3] + cycle_day,
                                 t[1], t[2], 399000, BEIJING_LONGITUDE, FALSE)>>
    /\ now_year' = now
    /\ UNCHANGED <<solar_date, local_datetime, hour_branch_index, gz_return, bazi,
                   http_error>>
    /\ UNCHANGED <<kbVars, searchVars, cycleVars, localVars>>

\* The day's zi-hour result is noted and the day is over.
CycleObserve ==
    /\ bpc = "done"
    /\ zi_log' = zi_log \cup
          (IF hour_branch_index[1] = 0
           THEN {<<IndexOf(HEAVENLY_STEMS, bazi[1].day[1]),
                   IndexOf(HEAVENLY_STEMS, bazi[1].hour[1])>>}
           ELSE {})
    /\ cycle_day' = cycle_day + 1
    /\ bpc' = "idle"
    /\ BaziReset
    /\ UNCHANGED <<kbVars, searchVars, localVars>>

NextCycle ==
    \/ \E t \in ZiTimes, now \in NowYears : CycleRequest(t, now)
    \/ BaziValidate
    \/ BaziConvert
    \/ BaziLocalTime
    \/ BaziPillars
    \/ CycleObserve

SpecCycle == Init /\ [][NextCycle]_vars

\* ------------------------------------- beijing_time_to_local_time, by itself

\* 2 * BEIJING_LONGITUDE - longitude: as far from the reference meridian,
\* on its other side.
Mirrored(longitude) ==
    IF longitude.sub = 0
    THEN Degrees(2 * BEIJING_LONGITUDE - longitude.units, 0)
    ELSE Degrees(2 * BEIJING_LONGITUDE - longitude.units - 1,
                 US_PER_UNIT * SubMicro - longitude.sub)

\* BEIJING_LONGITUDE + 2 * (longitude - BEIJING_LONGITUDE).
Doubled(longitude) ==
    Degrees(BEIJING_LONGITUDE + 2 * (longitude.units - BEIJING_LONGITUDE)
                + ((2 * longitude.sub) \div (US_PER_UNIT * SubMicro)),
            (2 * longitude.sub) % (US_PER_UNIT * SubMicro))

\* The timestamps the function is called with: around midnight and noon of
\* 2000-03-01, on and off a whole millisecond.
LocalTimeStamps ==
    { [day |-> JulianDay(2000, 3, 1), ms |-> ms, us |-> us] :
        ms \in {0, 10 * MS_PER_MINUTE, 12 * MS_PER_HOUR,
                MS_PER_DAY - 10 * MS_PER_MINUTE, MS_PER_DAY - 1},
        us \in {0, US_PER_MS - 1} }

\* The longitudes it is called with: whole units from the date line to the
\* reference meridian, and below a unit the parts that fall on a whole
\* microsecond, between two, and on a tie.
LocalLongitudes ==
    { Degrees(units, sub) :
        units \in {-1800000, 0, 1139000, BEIJING_LONGITUDE - 1, BEIJING_LONGITUDE,
                   BEIJING_LONGITUDE + 1, 1800000},
        sub \in {0, 3, SubMicro \div 2, SubMicro, SubMicro + (SubMicro \div 2) + 1,
                 3 * SubMicro, US_PER_UNIT * SubMicro - 3} }

\* beijing_time_to_local_time(dt, longitude), and for the same dt the calls
\* at the reference meridian, the mirrored longitude and twice the offset.
LocalTimeCall(dt, longitude) ==
    /\ lpc = "idle"
    /\ lpc' = "done"
    /\ lt_dt' = <<dt>>
    /\ lt_longitude' = <<longitude>>
    /\ lt_local' = <<beijing_time_to_local_time(dt, longitude),
                     beijing_time_to_local_time(dt, Degrees(BEIJING_LONGITUDE, 0)),
                     beijing_time_to_local_time(dt, Mirrored(longitude)),
                     beijing_time_to_local_time(dt, Doubled(longitude))>>
    /\ UNCHANGED <<kbVars, searchVars, baziVars, cycleVars>>

\* The caller has the timestamps.
LocalTimeReturn ==
    /\ lpc = "done"
    /\ lpc' = "idle"
    /\ lt_dt' = <<>>
    /\ lt_longitude' = <<>>
    /\ lt_local' = <<>>
    /\ UNCHANGED <<kbVars, searchVars, baziVars, cycleVars>>

NextLocalTime ==
    \/ \E dt \in LocalTimeStamps, longitude \in LocalLongitudes :
          LocalTimeCall(dt, longitude)
    \/ LocalTimeReturn

SpecLocalTime == Init /\ [][NextLocalTime]_vars

\* ---------------------------------------------------- claims on search

\* The documents that share a word with the query of caller c.
Matching(c) ==
    {i \in DOMAIN documents :
        SetOf(documents[i].content) \cap SetOf(query_words[c]) # {}}

\* C1: the results of search are sorted by score descending, documents of
\* equal score appear lower identifier first, and the outcome is the same
\* for every order in which the query words are visited.
C1_RankedByScoreThenId ==
    \A c \in Callers : pc[c] = "done" =>
        /\ \A i, j \in DOMAIN sorted_docs[c] : i < j =>
              \/ sorted_docs[c][i][2] > sorted_docs[c][j][2]
              \/ /\ sorted_docs[c][i][2] = sorted_docs[c][j][2]
                 /\ sorted_docs[c][i][1] < sorted_docs[c][j][1]
        /\ \A o \in Perms(SetOf(query_words[c])) :
              SearchAlone(documents, index, o, n_results[c]) = results[c]

\* C2 as stated: search(query, limit) returns at most limit results, for
\* every integer limit, 0 and the negative ones included.
C2_LengthAtMostLimit ==
    \A c \in Callers : pc[c] = "done" => Len(results[c]) <= n_results[c]

\* C2 as amended: with m documents sharing a word with the query, a limit
\* of 0 or more gives min(limit, m) results, at most limit; a negative
\* limit gives max(0, m + limit) results, all but the last -limit.
C2_LengthWithinLimit ==
    \A c \in Callers : pc[c] = "done" =>
        LET m == Cardinality(Matching(c))
        IN /\ n_results[c] >= 0 =>
                /\ Len(results[c]) = Min(n_results[c], m)
                /\ Len(results[c]) <= n_results[c]
           /\ n_results[c] < 0 => Len(results[c]) = Max(0, m + n_results[c])

\* A search with limit 1 that dropped matching documents, next to none.
C2_Witness ==
    \E c \in Callers :
        /\ pc[c] = "done"
        /\ n_results[c] = 1
        /\ Cardinality(Matching(c)) = 3
        /\ Len(results[c]) = 1

\* C6: each result carries the number of distinct query words its
\* document holds, that number is at least 1, and no document without a
\* query word is among the results.
C6_ScoreIsOverlap ==
    \A c \in Callers : pc[c] = "done" =>
        /\ Len(results[c]) = Len(sorted_docs[c])
        /\ \A i \in DOMAIN results[c] :
              LET doc == documents[sorted_docs[c][i][1] + 1]
                  overlap == SetOf(doc.content) \cap SetOf(query_words[c])
              IN /\ results[c][i].content = doc.content
                 /\ results[c][i].source = doc.source
                 /\ results[c][i].score = Cardinality(overlap)
                 /\ results[c][i].score >= 1
        /\ \A i \in DOMAIN results[c] :
              SetOf(results[c][i].content) \cap SetOf(query_words[c]) # {}

\* A search over a corpus with a document that repeats a query word, one
\* that holds two query words and one that holds none.
C6_Witness ==
    \E c \in Callers :
        /\ pc[c] = "done"
        /\ \E i \in DOMAIN results[c] : results[c][i].score = 2
        /\ \E i \in DOMAIN results[c] : results[c][i].content = <<"wuxing", "wuxing">>
        /\ Cardinality(Matching(c)) < Len(documents)

\* C8: a call of search leaves the documents and every posting list as
\* they were, no key added and no stored document given a score, and each
\* of two interleaved calls returns what it returns when run alone.
C8_SearchReadOnly ==
    /\ [][serving => (documents' = documents /\ index' = index)]_vars
    /\ [](\A c \in Callers : pc[c] = "done" =>
            results[c] = SearchAlone(documents, index, query_words[c], n_results[c]))

\* Both callers inside a search, one done with results, the other having
\* visited a word the index does not hold.
C8_Witness ==
    /\ pc[1] = "done"
    /\ results[1] # <<>>
    /\ pc[2] = "scan"
    /\ query_words[2] = <<"unknown">>
    /\ todo[2] = <<>>

\* C9: search raises nothing, and returns the empty sequence on an empty
\* corpus and for a query without words.
C9_SearchTotal ==
    \A c \in Callers :
        /\ pc[c] # "raised"
        /\ (pc[c] = "done" /\ (documents = <<>> \/ query_words[c] = <<>>))
              => results[c] = <<>>

\* A finished search for no words over a corpus that holds documents.
C9_Witness ==
    \E c \in Callers :
        /\ pc[c] = "done"
        /\ query_words[c] = <<>>
        /\ Len(documents) = MaxDocs
        /\ n_results[c] = MaxLimit

\* ------------------------------------- claims on get_relevant_knowledge

RECURSIVE SplitBlocks(_, _)
\* The blocks of a text: its pieces between the separators.
SplitBlocks(text, sep) ==
    IF \A i \in DOMAIN text : text[i] # sep THEN <<text>>
    ELSE LET k == CHOOSE i \in DOMAIN text :
                     text[i] = sep /\ \A j \in 1..(i - 1) : text[j] # sep
         IN <<SubSeq(text, 1, k - 1)>> \o SplitBlocks(SubSeq(text, k + 1, Len(text)), sep)

BlocksOf(text) == IF text = <<>> THEN <<>> ELSE SplitBlocks(text, "NLNL")

\* C10: get_relevant_knowledge calls search with limit 5 and returns one
\* block of source, category, score and content per result, in ranked
\* order, the blocks separated by blank lines, at most 5 of them; with no
\* result it returns the empty text and raises nothing.
C10_KnowledgeBlocks ==
    \A c \in Callers :
        /\ bazi_data[c] # <<>> => pc[c] # "raised" /\ n_results[c] = 5
        /\ pc[c] = "composed" =>
              LET blocks == BlocksOf(knowledge[c])
              IN /\ Len(blocks) <= 5
                 /\ Len(blocks) = Len(results[c])
                 /\ Len(blocks) = Min(5, Cardinality(Matching(c)))
                 /\ results[c] = <<>> <=> knowledge[c] = <<>>
                 /\ \A i \in DOMAIN blocks :
                       LET doc == documents[sorted_docs[c][i][1] + 1]
                           n == Len(IntToStr(sorted_docs[c][i][2]))
                       IN /\ SubSeq(blocks[i], 1, 7) =
                               <<"source:", doc.source, "NL", "category:",
                                 doc.category, "NL", "score:">>
                          /\ SubSeq(blocks[i], 8, 7 + n) = IntToStr(sorted_docs[c][i][2])
                          /\ SubSeq(blocks[i], 8 + n, Len(blocks[i])) =
                               <<"NL", "content:">> \o doc.content
                 /\ \A i, j \in DOMAIN blocks :
                       i < j => sorted_docs[c][i][2] >= sorted_docs[c][j][2]

\* Six documents match, five blocks are returned, of two different scores.
C10_Witness ==
    \E c \in Callers :
        /\ pc[c] = "composed"
        /\ Cardinality(Matching(c)) = 6
        /\ Len(BlocksOf(knowledge[c])) = 5
        /\ sorted_docs[c][1][2] = 2
        /\ sorted_docs[c][5][2] = 1

\* ------------------------------------------------ claims on calculate_bazi

\* C3: for the hour and minute of every local time, get_gz_hour returns
\* branch 0 when the decimal hour is at least 23 or below 1, otherwise the
\* one i in 1..11 with 2i-1 <= decimal hour < 2i+1; the result is in 0..11
\* and the closing default return is never the one taken.
C3_HourBranchWindows ==
    bpc \in {"pillars", "done"} =>
        LET h == HourOf(local_datetime[1])
            mi == MinuteOf(local_datetime[1])
            t == h * 60 + mi
            b == hour_branch_index[1]
        IN /\ h \in 0..23 /\ mi \in 0..59
           /\ b \in 0..11
           /\ gz_return # "default"
           /\ (t >= 23 * 60 \/ t < 60) => b = 0
           /\ ~(t >= 23 * 60 \/ t < 60) =>
                 /\ b \in 1..11
                 /\ (2 * b - 1) * 60 <= t /\ t < (2 * b + 1) * 60
                 /\ \A i \in 1..11 :
                       ((2 * i - 1) * 60 <= t /\ t < (2 * i + 1) * 60) => i = b

\* A result for the local time 23:00, the first minute of the zi hour.
C3_Witness ==
    /\ bpc = "done"
    /\ HourOf(local_datetime[1]) = 23
    /\ MinuteOf(local_datetime[1]) = 0
    /\ hour_branch_index[1] = 0

\* C4: with day stem s and hour branch b the hour pillar of the result has
\* stem (2s + b) mod 10, one of the ten stems, and branch b.
C4_HourPillarFromDayStem ==
    bpc = "done" =>
        LET s == IndexOf(HEAVENLY_STEMS, bazi[1].day[1])
            b == hour_branch_index[1]
        IN /\ bazi[1].day = DayInGanZhi(solar_date[1], solar_date[2], solar_date[3])
           /\ bazi[1].hour[1] \in SetOf(HEAVENLY_STEMS)
           /\ IndexOf(HEAVENLY_STEMS, bazi[1].hour[1]) = (2 * s + b) % 10
           /\ IndexOf(HEAVENLY_STEMS, bazi[1].hour[1]) \in 0..9
           /\ bazi[1].hour[2] = EARTHLY_BRANCHES[b + 1]
           /\ IndexOf(EARTHLY_BRANCHES, bazi[1].hour[2]) = b

\* A result for the last day stem and the last hour branch.
C4_Witness ==
    /\ bpc = "done"
    /\ bazi[1].day[1] = "gui"
    /\ hour_branch_index[1] = 11
    /\ bazi[1].hour = <<"gui", "hai">>

\* C5 as stated: over five consecutive days with day stems 0..4 the hour
\* stems of the zi hour are all of 0..9.
C5_ZiStemsCoverAllTen ==
    cycle_day = 5 => {p[2] : p \in zi_log} = 0..9

\* C5 as amended: over five consecutive days with day stems 0..4 the hour
\* stem of the zi hour is twice the day stem: the five stems 0, 2, 4, 6, 8.
C5_ZiStemsAreEven ==
    /\ \A p \in zi_log : p[1] \in 0..4 /\ p[2] = 2 * p[1]
    /\ cycle_day = 5 =>
          /\ {p[1] : p \in zi_log} = 0..4
          /\ {p[2] : p \in zi_log} = {0, 2, 4, 6, 8}

\* The five days are over, each with its zi-hour result.
C5_Witness ==
    /\ cycle_day = 5
    /\ Cardinality(zi_log) = 5

\* The field a validation message names.
FieldOf(message) ==
    CASE message = MsgYear -> "year"
      [] message = MsgMonth -> "month"
      [] message = MsgDay -> "day"
      [] message = MsgLatitude -> "latitude"
      [] message = MsgLongitude -> "longitude"
      [] OTHER -> "none"

\* The first field of the request outside its range, in the order year,
\* month, day, latitude, longitude.
FirstOutOfRange ==
    LET info == birth_info[1]
    IN IF info.year < 1900 \/ info.year > now_year THEN "year"
       ELSE IF info.month < 1 \/ info.month > 12 THEN "month"
       ELSE IF info.day < 1 \/ info.day > 31 THEN "day"
       ELSE IF info.latitude < -900000 \/ info.latitude > 900000 THEN "latitude"
       ELSE IF info.longitude < -1800000 \/ info.longitude > 1800000 THEN "longitude"
       ELSE "none"

\* C7: a request with a field out of range is rejected with an error that
\* names the first such field in the order year, month, day, latitude,
\* longitude, before any conversion, time correction or pillar is
\* computed, and no pillars are returned.
C7_RejectsOutOfRange ==
    birth_info # <<>> =>
        /\ bpc \in {"convert", "localize", "pillars", "done"} => FirstOutOfRange = "none"
        /\ (bpc = "raised" /\ FirstOutOfRange # "none") =>
              /\ http_error # <<>>
              /\ FieldOf(http_error[1].detail[2]) = FirstOutOfRange
              /\ solar_date = <<>>
              /\ local_datetime = <<>>
              /\ hour_branch_index = <<>>
        /\ bpc = "raised" => bazi = <<>> /\ http_error # <<>>
        /\ bpc = "done" => bazi # <<>> /\ http_error = <<>>

\* A rejected lunar request whose year, day and latitude are all out of range.
C7_Witness ==
    /\ bpc = "raised"
    /\ birth_info[1].year = 1899
    /\ birth_info[1].day = 32
    /\ birth_info[1].latitude = 900001
    /\ birth_info[1].is_lunar
    /\ http_error[1].detail[2] = MsgYear

\* ------------------------------------ claims on beijing_time_to_local_time

\* to - from, as whole milliseconds and the microseconds above them.
TimeShift(from, to) ==
    LET ms == (to.day - from.day) * MS_PER_DAY + (to.ms - from.ms)
        us == to.us - from.us
    IN IF us < 0 THEN [ms |-> ms - 1, us |-> us + US_PER_MS]
       ELSE [ms |-> ms, us |-> us]

\* -shift.
Negated(shift) ==
    IF shift.us = 0 THEN [ms |-> 0 - shift.ms, us |-> 0]
    ELSE [ms |-> 0 - shift.ms - 1, us |-> US_PER_MS - shift.us]

\* 2 * shift.
Twice(shift) ==
    [ms |-> 2 * shift.ms + ((2 * shift.us) \div US_PER_MS),
     us |-> (2 * shift.us) % US_PER_MS]

\* a - b in microseconds, for two shifts less than a second apart.
ShiftGap(a, b) == (a.ms - b.ms) * US_PER_MS + (a.us - b.us)

\* The microseconds of the shift above the 24 ms of every whole unit of
\* longitude_diff.
ShiftAboveUnits(longitude, shift) ==
    ShiftGap(shift, [ms |-> (longitude.units - BEIJING_LONGITUDE)
                                * (US_PER_UNIT \div US_PER_MS),
                     us |-> 0])

\* The shifts of the four calls, each from the timestamp corrected at the
\* reference meridian.
ShiftAt == TimeShift(lt_local[2], lt_local[1])
ShiftMirrored == TimeShift(lt_local[2], lt_local[3])
ShiftDoubled == TimeShift(lt_local[2], lt_local[4])

Occurrences(postings, doc_id) ==
    Cardinality({k \in DOMAIN postings : postings[k] = doc_id})

\* The document with each token of its content once.
Deduplicated(doc) == [doc EXCEPT !.content = Dedupe(@)]

\* C12: after any sequence of add_documents calls no posting list holds a
\* document identifier twice; the identifiers are the positions in the
\* documents list, counted from 0: a word's posting list holds exactly the
\* positions of the documents with that word, in insertion order; and
\* adding a document that repeats a token leaves the index as adding the
\* document with that token once does.
C12_PostingsAreSets ==
    /\ \A w \in DOMAIN index : \A i, j \in DOMAIN index[w] :
          i # j => index[w][i] # index[w][j]
    /\ \A w \in DOMAIN index : \A k \in DOMAIN index[w] :
          /\ index[w][k] \in 0..(Len(documents) - 1)
          /\ w \in SetOf(documents[index[w][k] + 1].content)
          /\ k > 1 => index[w][k - 1] < index[w][k]
    /\ \A i \in DOMAIN documents : \A w \in SetOf(documents[i].content) :
          /\ w \in DOMAIN index
          /\ Occurrences(index[w], i - 1) = 1
    /\ \A doc \in DocPool :
          AddAll(documents, index, <<doc>>).index
              = AddAll(documents, index, <<Deduplicated(doc)>>).index

\* Three documents were added over more than one call, the last of them
\* repeats a token that an earlier document holds once.
C12_Witness ==
    /\ Len(documents) = 3
    /\ documents[3].content = <<"wuxing", "wuxing">>
    /\ \E i \in 1..2 : documents[i].content = <<"wuxing">>
    /\ Len(index["wuxing"]) >= 2

\* ------------------------------------ claims on the pillars of the date

\* What calculate_bazi returns for a valid solar date, a Beijing time of day
\* and a longitude.
ResultFor(date, hour, minute, longitude) ==
    LET beijing_datetime ==
            [day |-> JulianDay(date[1], date[2], date[3]),
             ms |-> hour * MS_PER_HOUR + minute * MS_PER_MINUTE, us |-> 0]
        local == beijing_time_to_local_time(beijing_datetime, Degrees(longitude, 0))
    IN BaziOf(date, local, GzHour(HourOf(local), MinuteOf(local)).branch)

\* The times of day and longitudes a result is compared with.
OtherTimes == {<<0, 0>>, <<0, 10>>, <<12, 0>>, <<23, 50>>, <<23, 59>>}
OtherLongitudes == {-1800000, 0, BEIJING_LONGITUDE, 1800000}

\* The year, month and day of the request, a lunar date converted.
DateOf(info) ==
    IF info.is_lunar
    THEN convert_lunar_to_solar(info.year, info.month, info.day).date
    ELSE <<info.year, info.month, info.day>>

\* C13: the year, month and day pillars, solar_date and lunar_date of a
\* result are those of the request's (converted) date, the same at every
\* other time of day and longitude, also when the corrected timestamp lies
\* on another calendar date; the hour stem is taken from the day stem of
\* that date; and the hour pillar does differ at some other longitude.
C13_DatePillarsIgnoreLongitude ==
    bpc = "done" =>
        LET info == birth_info[1]
            date == DateOf(info)
            day_stem == IndexOf(HEAVENLY_STEMS, DayInGanZhi(date[1], date[2], date[3])[1])
        IN /\ solar_date = date
           /\ bazi[1].solar_date = date
           /\ bazi[1].year = YearInGanZhi(date[1], date[2], date[3])
           /\ bazi[1].month = MonthInGanZhi(date[1], date[2], date[3])
           /\ bazi[1].day = DayInGanZhi(date[1], date[2], date[3])
           /\ \A t \in OtherTimes, lon \in OtherLongitudes :
                 LET other == ResultFor(date, t[1], t[2], lon)
                 IN /\ other.year = bazi[1].year
                    /\ other.month = bazi[1].month
                    /\ other.day = bazi[1].day
                    /\ other.solar_date = bazi[1].solar_date
                    /\ other.lunar_date = bazi[1].lunar_date
           /\ IndexOf(HEAVENLY_STEMS, bazi[1].hour[1])
                 = (2 * day_stem + hour_branch_index[1]) % 10
           /\ \E lon \in OtherLongitudes :
                 ResultFor(date, info.hour, info.minute, lon).hour # bazi[1].hour

\* A result whose corrected timestamp lies on the day before the date asked
\* for: ten past midnight, far west of the reference meridian.
C13_Witness ==
    /\ bpc = "done"
    /\ birth_info[1].hour = 0
    /\ birth_info[1].longitude = -1800000
    /\ local_datetime[1].day
          = JulianDay(solar_date[1], solar_date[2], solar_date[3]) - 1
    /\ bazi[1].day = DayInGanZhi(solar_date[1], solar_date[2], solar_date[3])

====
